---- MODULE Spec2Model ----
(***************************************************************************)
(* Model of Backend/app.py: the chat gateway.  A pool of request threads   *)
(* runs the chat() handler (validate, throttle, forward, translate), one   *)
(* daemon thread runs cleanup_rate_limit_store(), and both share           *)
(* rate_limit_store under rate_limit_lock.                                 *)
(*                                                                         *)
(* A Python str is the sequence of the code points of its characters       *)
(* (ord(c) of each: "hi" is <<104, 105>>), so that strip(), split(','),    *)
(* the f-string of get_client_identifier and the match of EMAIL_REGEX are  *)
(* computed character by character as Python does, for every character    *)
(* of Unicode.  Text writes the constants from their ASCII characters.     *)
(***************************************************************************)
EXTENDS Integers, Sequences, FiniteSets, TLC

\* ------------------------------------------------------------------------
\* Configuration (app.py lines 15-16, 63, 66)
\* ------------------------------------------------------------------------
RATE_LIMIT_REQUESTS == 10

RATE_LIMIT_WINDOW == 60

SWEEP_INTERVAL == 300

\* ------------------------------------------------------------------------
\* Strings
\* ------------------------------------------------------------------------
\* The printable characters of ASCII in the order of their code points:
\* 32 (space) to 95 (underscore), and 97 (a) to 126 (tilde); the grave
\* accent, 96, is not written as a character in this module.
Ascii == <<" ","!","\"","#","$","%","&","'","(",")","*","+",
           ",","-",".","/","0","1","2","3","4","5","6","7",
           "8","9",":",";","<","=",">","?","@","A","B","C",
           "D","E","F","G","H","I","J","K","L","M","N","O",
           "P","Q","R","S","T","U","V","W","X","Y","Z","[",
           "\\","]","^","_">>

AsciiSmall == <<"a","b","c","d","e","f","g","h","i","j","k","l",
                "m","n","o","p","q","r","s","t","u","v","w","x",
                "y","z","{","|","}","~">>

\* ord(c) of a printable ASCII character.
Ord(c) ==
    IF \E i \in 1..Len(Ascii) : Ascii[i] = c
    THEN 31 + (CHOOSE i \in 1..Len(Ascii) : Ascii[i] = c)
    ELSE 96 + (CHOOSE i \in 1..Len(AsciiSmall) : AsciiSmall[i] = c)

\* The str written with the printable ASCII characters of s.
Text(s) == [i \in 1..Len(s) |-> Ord(s[i])]

\* a-z
Lower == Ord("a")..Ord("z")

\* A-Z
Upper == Ord("A")..Ord("Z")

Letters == Lower \cup Upper

\* 0-9
Digits == Ord("0")..Ord("9")

\* The characters str.strip() removes, those for which str.isspace() holds:
\* tab, line feed, vertical tab, form feed, carriage return (9..13), the
\* separators U+001C..U+001F and the space (28..32), next line U+0085,
\* no-break space U+00A0, Ogham space mark U+1680, the spaces
\* U+2000..U+200A, line and paragraph separator U+2028 and U+2029, narrow
\* no-break space U+202F, medium mathematical space U+205F and ideographic
\* space U+3000.
Whitespace ==
    (9..13) \cup (28..32) \cup {133, 160, 5760} \cup (8192..8202)
        \cup {8232, 8233, 8239, 8287, 12288}

\* [a-zA-Z0-9._%+-]
LocalChars ==
    Letters \cup Digits \cup {Ord("."), Ord("_"), Ord("%"), Ord("+"), Ord("-")}

\* [a-zA-Z0-9.-]
DomainChars == Letters \cup Digits \cup {Ord("."), Ord("-")}

Comma == Ord(",")

At == Ord("@")

Dot == Ord(".")

Colon == Ord(":")

\* "\n"
LineFeed == 10

SetMin(S) == CHOOSE x \in S : \A y \in S : x <= y

SetMax(S) == CHOOSE x \in S : \A y \in S : x >= y

\* str.strip(): drop leading and trailing whitespace.
Strip(s) ==
    LET keep == {i \in 1..Len(s) : s[i] \notin Whitespace}
    IN  IF keep = {} THEN <<>> ELSE SubSeq(s, SetMin(keep), SetMax(keep))

\* s.split(',')[0]: the text before the first comma (all of it without one).
FirstField(s) ==
    LET commas == {i \in 1..Len(s) : s[i] = Comma}
    IN  IF commas = {} THEN s ELSE SubSeq(s, 1, SetMin(commas) - 1)

\* The pattern [a-zA-Z0-9._%+-]+@[a-zA-Z0-9.-]+\.[a-zA-Z]{2,} matched against
\* the whole of s: some "@" at i and some "." at j split s into a non-empty
\* local part, a non-empty domain part and a final label of two or more
\* letters.
MatchesWhole(s) ==
    \E i \in 1..Len(s) : \E j \in 1..Len(s) :
        /\ s[i] = At
        /\ s[j] = Dot
        /\ i > 1
        /\ j > i + 1
        /\ Len(s) - j >= 2
        /\ \A k \in 1..(i - 1) : s[k] \in LocalChars
        /\ \A k \in (i + 1)..(j - 1) : s[k] \in DomainChars
        /\ \A k \in (j + 1)..Len(s) : s[k] \in Letters

\* EMAIL_REGEX.match(s) is not None.  The pattern is anchored with ^ and $;
\* Python's $ matches at the end of the string and also just before a
\* newline that ends the string.
EMAIL_REGEX_match(s) ==
    \/ MatchesWhole(s)
    \/ /\ Len(s) > 0
       /\ s[Len(s)] = LineFeed
       /\ MatchesWhole(SubSeq(s, 1, Len(s) - 1))

\* ------------------------------------------------------------------------
\* JSON values as Python sees them after parsing: the Python type and, for
\* a string, its characters (for any other value, its rendering by str()).
\* ------------------------------------------------------------------------
\* JSON null, which parses to None.
None == [t |-> "none", v |-> <<>>]

\* A key that the object does not have: data.get(key) gives None,
\* data.get(key, '') gives ''.
Absent == [t |-> "absent", v |-> <<>>]

Str(s) == [t |-> "str", v |-> s]

\* A JSON integer with its rendering: 7, 0, -0 (which parses to 0).
Num(s) == [t |-> "int", v |-> s]

\* A JSON number with a fraction or an exponent, which parses to a float,
\* with its rendering: 0.0, -0.0, 1.5.
Float(s) == [t |-> "float", v |-> s]

\* true or false, rendered True or False.
Bool(s) == [t |-> "bool", v |-> s]

\* A JSON array or object as a field, with its rendering: [], [1], {}.
Container(t, s) == [t |-> t, v |-> s]

\* The characters of the rendering of a number that is zero.
ZeroChars == {Ord("0"), Ord("-"), Ord(".")}

\* str(True)
TrueText == Text(<<"T","r","u","e">>)

\* str(False)
FalseText == Text(<<"F","a","l","s","e">>)

\* str(None)
NoneText == Text(<<"N","o","n","e">>)

\* str([])
EmptyList == Text(<<"[","]">>)

\* str({})
EmptyDict == Text(<<"{","}">>)

\* Python truthiness of a parsed value: `not x` is the negation.  A number
\* is false when it is zero (0, 0.0, -0.0: its rendering has no character
\* other than "0", "-" and "."), a container when it is empty.
Truthy(x) ==
    CASE x.t = "none"   -> FALSE
      [] x.t = "absent" -> FALSE
      [] x.t = "str"    -> x.v # <<>>
      [] x.t \in {"int", "float"} ->
             \E k \in 1..Len(x.v) : x.v[k] \notin ZeroChars
      [] x.t = "bool"   -> x.v = TrueText
      [] x.t = "list"   -> x.v # EmptyList
      [] x.t = "dict"   -> x.v # EmptyDict

IsStr(x) == x.t = "str"

\* validate_email(email)
validate_email(email) ==
    IF ~Truthy(email) \/ ~IsStr(email)
    THEN FALSE
    ELSE EMAIL_REGEX_match(email.v)

\* f"{x}" of a parsed value.
Format(x) == IF x.t \in {"none", "absent"} THEN NoneText ELSE x.v

\* ------------------------------------------------------------------------
\* Requests.  json says what request.get_json() meets in the body:
\*   "malformed"  the body is not JSON: get_json() raises BadRequest
\*   "falsy"      JSON that Python treats as false ({}, null, [], 0, "")
\*   "array"      a non-empty JSON array: truthy, but it has no .get
\*   "object"     a non-empty JSON object with the fields below (None for a
\*                key that is null, Absent for a key that is not there:
\*                data.get(key) gives None for both)
\* remote_addr and forwarded are the connection address and the
\* X-Forwarded-For header (has_forwarded says whether the header is there).
\* ------------------------------------------------------------------------
Request(json, session_id, query, email, remote_addr, has_forwarded, forwarded) ==
    [json |-> json, session_id |-> session_id, query |-> query, email |-> email,
     remote_addr |-> remote_addr, has_forwarded |-> has_forwarded,
     forwarded |-> forwarded]

Addr1 == Text(<<"1",".","1">>)

Addr2 == Text(<<"2",".","2">>)

Proxy == Text(<<"9",".","9">>)

S1 == Str(Text(<<"s","1">>))

Hi == Str(Text(<<"h","i">>))

\* " \fhi\u00e9\u2003\n": a space and a form feed, "hi" and an e with
\* acute accent (233), an em space (8195) and a line feed.
HiPadded == Str(<<32, 12>> \o Text(<<"h","i">>) \o <<233, 8195, 10>>)

\* A query that is one form feed.
FormFeed == Str(<<12>>)

\* A query that is one Ogham space mark, U+1680.
OghamSpace == Str(<<5760>>)

\* Two spaces and a tab.
Blank == Str(<<32, 32, 9>>)

GoodEmail == Str(Text(<<"a","@","b",".","c","o","m">>))

TaggedEmail == Str(Text(<<"u","s","e","r",".","n","a","m","e","+","t","a","g","@",
                     "s","u","b",".","e","x","a","m","p","l","e",".","c","o">>))

\* A well-formed address followed by a line feed.
NewlineEmail == Str(Text(<<"a","@","b",".","c","o","m">>) \o <<LineFeed>>)

\* "user@.com", "user@com", "not-an-email", "a@b.c"
BadEmails == { Str(Text(<<"u","s","e","r","@",".","c","o","m">>)),
               Str(Text(<<"u","s","e","r","@","c","o","m">>)),
               Str(Text(<<"n","o","t","-","a","n","-","e","m","a","i","l">>)),
               Str(Text(<<"a","@","b",".","c">>)) }

Plain(session_id, query, email) ==
    Request("object", session_id, query, email, Addr1, FALSE, <<>>)

\* The valid request of client (1.1, s1), sent directly.
ReqA == Plain(S1, Hi, GoodEmail)

\* The same client behind a proxy: "1.1\u1680 ,9.9" in X-Forwarded-For (an
\* Ogham space mark and a space after the first address), the proxy's
\* address on the connection, a padded query.
ReqAProxied ==
    Request("object", S1, HiPadded, TaggedEmail, Proxy, TRUE,
            Addr1 \o <<5760, 32, Comma>> \o Proxy)

\* Another address, same session.
ReqB == Request("object", S1, Hi, GoodEmail, Addr2, FALSE, <<>>)

\* Same address, another session: the number 7, which is truthy.
ReqC == Plain(Num(Text(<<"7">>)), Hi, GoodEmail)

ValidRequests == {ReqA, ReqAProxied, ReqB, ReqC}

InvalidRequests ==
    { Request("malformed", None, None, None, Addr1, FALSE, <<>>),
      Request("falsy", None, None, None, Addr1, FALSE, <<>>),
      Request("array", None, None, None, Addr1, FALSE, <<>>),
      Plain(None, Hi, GoodEmail),
      Plain(Absent, Hi, GoodEmail),
      Plain(Float(Text(<<"0",".","0">>)), Hi, GoodEmail),
      Plain(Bool(FalseText), Hi, GoodEmail),
      Plain(Str(<<>>), None, None),
      Plain(S1, None, GoodEmail),
      Plain(S1, Absent, GoodEmail),
      Plain(S1, Num(Text(<<"5">>)), GoodEmail),
      Plain(S1, Container("list", Text(<<"[","1","]">>)), GoodEmail),
      Plain(S1, FormFeed, GoodEmail),
      Plain(S1, OghamSpace, GoodEmail),
      Plain(S1, Blank, None),
      Plain(S1, Hi, None),
      Plain(S1, Hi, Absent),
      Plain(S1, Hi, Container("dict", EmptyDict)),
      Plain(S1, Hi, Str(<<>>)),
      Plain(S1, Hi, Num(Text(<<"5">>))) }
    \cup { Plain(S1, Hi, e) : e \in BadEmails }

\* A request the gates let through although its email ends in a line feed.
ReqNewline == Plain(S1, Hi, NewlineEmail)

Requests == ValidRequests \cup InvalidRequests \cup {ReqNewline}

\* Same address as ReqC, the session "7" as a string.
ReqSeven == Plain(Str(Text(<<"7">>)), Hi, GoodEmail)

\* Address 1.1 with session "s:1", and address "1.1:s" (as the first entry
\* of X-Forwarded-For) with session "1".
ReqColonSession == Plain(Str(Text(<<"s",":","1">>)), Hi, GoodEmail)

ReqColonAddress ==
    Request("object", Str(Text(<<"1">>)), Hi, GoodEmail, Proxy, TRUE,
            Text(<<"1",".","1",":","s">>))

\* Valid requests of clients that differ in address, in session, or both.
QuotaRequests == {ReqB, ReqC, ReqSeven, ReqColonSession, ReqColonAddress}

\* ------------------------------------------------------------------------
\* get_client_identifier(request)
\* ------------------------------------------------------------------------
\* Line 34-36: the address part of the identifier.
client_address(r) ==
    LET ip0 == IF r.has_forwarded THEN r.forwarded ELSE r.remote_addr
    IN  IF ip0 # <<>> THEN Strip(FirstField(ip0)) ELSE ip0

get_client_identifier(r) ==
    LET ip0 == IF r.has_forwarded THEN r.forwarded ELSE r.remote_addr
        ip  == IF ip0 # <<>> THEN Strip(FirstField(ip0)) ELSE ip0
        session_id == IF r.session_id = Absent THEN Str(<<>>)
                      ELSE r.session_id
    IN  ip \o <<Colon>> \o Format(session_id)

\* ------------------------------------------------------------------------
\* Responses of chat(): jsonify(body), status.  keys is the set of keys of
\* the JSON body; a key that is not in keys holds its default below.
\* ------------------------------------------------------------------------
NoResponse ==
    [status |-> 0, keys |-> {}, error |-> "", retry_after |-> 0,
     details |-> "", session_id |-> None, response |-> None]

ErrorResponse(status, error) ==
    [NoResponse EXCEPT !.status = status, !.keys = {"error"}, !.error = error]

DetailedError(status, error, details) ==
    [NoResponse EXCEPT !.status = status, !.keys = {"error", "details"},
                       !.error = error, !.details = details]

\* The 429 without its hint.
RateLimitedResponse_NoHint ==
    ErrorResponse(429, "Rate limit exceeded. Please try again later.")

RateLimitedResponse ==
    [NoResponse EXCEPT !.status = 429, !.keys = {"error", "retry_after"},
                       !.error = "Rate limit exceeded. Please try again later.",
                       !.retry_after = RATE_LIMIT_WINDOW]

SuccessResponse(session_id, response) ==
    [NoResponse EXCEPT !.status = 200,
                       !.keys = {"session_id", "response", "timestamp"},
                       !.session_id = session_id, !.response = response]

\* The gates without the check of query.
Gates_NoQueryGate(r) ==
    CASE r.json = "malformed" ->
           DetailedError(500, "Internal server error", "400 Bad Request")
      [] r.json = "falsy" ->
           ErrorResponse(400, "Invalid JSON payload")
      [] r.json = "array" ->
           DetailedError(500, "Internal server error",
                         "'list' object has no attribute 'get'")
      [] OTHER ->
           IF ~Truthy(r.session_id)
           THEN ErrorResponse(400, "session_id is required")
           ELSE IF ~Truthy(r.email)
           THEN ErrorResponse(400, "email is required")
           ELSE IF ~validate_email(r.email)
           THEN ErrorResponse(400, "Invalid email format")
           ELSE NoResponse

\* Lines 96-128 of chat(): the outcome of the parsing and validation gates,
\* NoResponse when the request passes them all.  get_json() raising, or
\* data.get on a value that is not a dict, is caught by the outer
\* `except Exception` (line 185).
Gates(r) ==
    CASE r.json = "malformed" ->
           DetailedError(500, "Internal server error", "400 Bad Request")
      [] r.json = "falsy" ->
           ErrorResponse(400, "Invalid JSON payload")
      [] r.json = "array" ->
           DetailedError(500, "Internal server error",
                         "'list' object has no attribute 'get'")
      [] OTHER ->
           IF ~Truthy(r.session_id)
           THEN ErrorResponse(400, "session_id is required")
           ELSE IF ~Truthy(r.query) \/ ~IsStr(r.query) \/ Strip(r.query.v) = <<>>
           THEN ErrorResponse(400,
                    "query is required and must be a non-empty string")
           ELSE IF ~Truthy(r.email)
           THEN ErrorResponse(400, "email is required")
           ELSE IF ~validate_email(r.email)
           THEN ErrorResponse(400, "Invalid email format")
           ELSE NoResponse

\* llm_payload (lines 139-143)
NoPayload == [session_id |-> None, query |-> None, email |-> None]

llm_payload(r) ==
    [session_id |-> r.session_id, query |-> Str(Strip(r.query.v)),
     email |-> r.email]

\* ------------------------------------------------------------------------
\* What requests.post(...) can end in: a response (status_code, a body that
\* is a JSON object, some other JSON value, or not JSON), or an exception.
\* ------------------------------------------------------------------------
Hello == Str(Text(<<"h","e","l","l","o">>))

HttpOutcome(status_code, body, has_response, response, text) ==
    [kind |-> "response", status_code |-> status_code, body |-> body,
     has_response |-> has_response, response |-> response, text |-> text]

Raised(kind) ==
    [kind |-> kind, status_code |-> 0, body |-> "none",
     has_response |-> FALSE, response |-> None, text |-> ""]

Outcomes ==
    { HttpOutcome(200, "object", TRUE, Hello, "{response: hello}"),
      HttpOutcome(200, "object", FALSE, None, "{}"),
      HttpOutcome(200, "array", FALSE, None, "[1]"),
      HttpOutcome(200, "notjson", FALSE, None, "<html>"),
      HttpOutcome(201, "object", TRUE, Hello, "{response: hello}"),
      HttpOutcome(404, "notjson", FALSE, None, "not found"),
      HttpOutcome(500, "object", TRUE, Hello, "{response: hello}"),
      Raised("Timeout"),
      Raised("ConnectionError"),
      Raised("Exception") }

\* Lines 146-183 of chat(): the response for an upstream outcome.
Translate(r, o) ==
    CASE o.kind = "Timeout" ->
           ErrorResponse(504, "LLM API request timed out")
      [] o.kind = "ConnectionError" ->
           ErrorResponse(503, "Failed to connect to LLM API")
      [] o.kind = "Exception" ->
           DetailedError(500, "Error calling LLM API", "Exception")
      [] OTHER ->
           IF o.status_code = 200
           THEN CASE o.body = "object" ->
                       SuccessResponse(r.session_id,
                           IF o.has_response THEN o.response ELSE Str(<<>>))
                  [] o.body = "array" ->
                       DetailedError(500, "Error calling LLM API",
                                     "'list' object has no attribute 'get'")
                  [] OTHER ->
                       DetailedError(500, "Error calling LLM API",
                                     "Expecting value")
           ELSE DetailedError(502, "LLM API error", o.text)

\* ------------------------------------------------------------------------
\* The limiter's list operations
\* ------------------------------------------------------------------------
\* A timestamp exactly at the cutoff kept.
NewerThan_Inclusive(timestamps, cutoff_time) ==
    SelectSeq(timestamps, LAMBDA ts : ts >= cutoff_time)

\* [ts for ts in timestamps if ts > cutoff_time]
NewerThan(timestamps, cutoff_time) ==
    SelectSeq(timestamps, LAMBDA ts : ts > cutoff_time)

\* rate_limit_store[key] of a defaultdict(list): a missing key reads as [].
Lookup(store, key) == IF key \in DOMAIN store THEN store[key] ELSE <<>>

\* rate_limit_store[key] = value
Assign(store, key, value) ==
    [k \in DOMAIN store \cup {key} |-> IF k = key THEN value ELSE store[k]]

\* The filter of check_rate_limit with the cutoff of the sweep.
CleanOldEntries_DoubleWindow(store, identifier, current) ==
    Assign(store, identifier,
           NewerThan(Lookup(store, identifier),
                     current - RATE_LIMIT_WINDOW * 2))

\* Lines 47-50 of check_rate_limit.
CleanOldEntries(store, identifier, current) ==
    Assign(store, identifier,
           NewerThan(Lookup(store, identifier), current - RATE_LIMIT_WINDOW))

\* The limit taken as the last count still allowed.
LimitExceeded_OffByOne(store, identifier) ==
    Len(Lookup(store, identifier)) > RATE_LIMIT_REQUESTS

\* Line 53 of check_rate_limit; the read creates a missing key.
LimitExceeded(store, identifier) ==
    Len(Lookup(store, identifier)) >= RATE_LIMIT_REQUESTS

\* The new timestamp put at the head of the list.
AddCurrentRequest_Prepends(store, identifier, current) ==
    Assign(store, identifier, <<current>> \o Lookup(store, identifier))

\* Line 57 of check_rate_limit.
AddCurrentRequest(store, identifier, current) ==
    Assign(store, identifier, Append(Lookup(store, identifier), current))

\* A pass that removes the old entries from the list it is iterating over:
\* after each removal the loop skips the entry that moved into the freed
\* place, so of the old entries only those at odd places go.
SweepPass_SkipsAfterRemoval(store, current) ==
    LET cutoff_time == current - RATE_LIMIT_WINDOW * 2
        keep(ts) == {i \in 1..Len(ts) : ts[i] > cutoff_time \/ i % 2 = 0}
        nth(ts, j) == CHOOSE i \in keep(ts) :
                          Cardinality({k \in keep(ts) : k <= i}) = j
        filtered == [k \in DOMAIN store |->
                        [j \in 1..Cardinality(keep(store[k])) |->
                            store[k][nth(store[k], j)]]]
        keys_to_delete == {k \in DOMAIN store : filtered[k] = <<>>}
    IN  [k \in DOMAIN store \ keys_to_delete |-> filtered[k]]

\* A pass with half a window as its cutoff.
SweepPass_HalfWindow(store, current) ==
    LET cutoff_time == current - RATE_LIMIT_WINDOW \div 2
        filtered == [k \in DOMAIN store |-> NewerThan(store[k], cutoff_time)]
        keys_to_delete == {k \in DOMAIN store : filtered[k] = <<>>}
    IN  [k \in DOMAIN store \ keys_to_delete |-> filtered[k]]

\* A pass that filters the lists and deletes no key.
SweepPass_KeepsEmptyKeys(store, current) ==
    LET cutoff_time == current - RATE_LIMIT_WINDOW * 2
    IN  [k \in DOMAIN store |-> NewerThan(store[k], cutoff_time)]

\* Lines 65-77 of cleanup_rate_limit_store: one pass at clock reading current.
SweepPass(store, current) ==
    LET cutoff_time == current - RATE_LIMIT_WINDOW * 2
        filtered == [k \in DOMAIN store |-> NewerThan(store[k], cutoff_time)]
        keys_to_delete == {k \in DOMAIN store : filtered[k] = <<>>}
    IN  [k \in DOMAIN store \ keys_to_delete |-> filtered[k]]

\* ------------------------------------------------------------------------
\* State
\* ------------------------------------------------------------------------
Workers == {"w1", "w2"}

\* The last clock reading of a run.
LastReading == 600

\* The clock readings datetime.now() can give, in seconds since the process
\* started: two inside one window (180, 210), two exactly one window apart
\* (210, 270), the first wake-up of the sweep (300), which is exactly two
\* windows after 180, and one after its second wake-up.
ClockReadings == {0, 180, 210, 270, 300, LastReading}

VARIABLES
    now,               \* the clock
    rate_limit_store,  \* identifier -> list of timestamps
    rate_limit_lock,   \* "free", or the thread that holds the lock
    pc,                \* where each request thread is in chat()
    request,           \* the request a thread is handling
    current_time,      \* check_rate_limit's local current_time
    admitted,          \* what check_rate_limit returned: "none", "True", "False"
    posted,            \* the payload the thread gave to requests.post
    outcome,           \* how its upstream call ended
    response,          \* the response the thread returned
    sweeper,           \* where the cleanup thread is: "sleep" (inside
                       \* time.sleep), "pass" (inside the lock) or "loop"
                       \* (out of the lock, about to call time.sleep)
    wake_at,           \* when its time.sleep(300) ends
    burst,             \* history: the calls of an identifier's current window
    last_denied,       \* history: the time of its latest denial, -1 after
                       \* an admission
    quiet,             \* history: a sweep pass ran and nothing was
                       \* admitted since
    found,             \* history: the identifier's list as the thread
                       \* found it when it took the lock
    unswept            \* history: the store as check_rate_limit alone
                       \* would have left it, had no sweep pass ever run

vars == <<now, rate_limit_store, rate_limit_lock, pc, request, current_time,
          admitted, posted, outcome, response, sweeper, wake_at, burst,
          last_denied, quiet, found, unswept>>

locals == <<request, current_time, admitted, posted, outcome, response>>

history == <<burst, last_denied, quiet>>

shadow == <<found, unswept>>

NoRequest == Request("none", None, None, None, <<>>, FALSE, <<>>)

NoOutcome == Raised("none")

Identifiers ==
    {get_client_identifier(r) :
        r \in {q \in Requests \cup QuotaRequests : Gates(q) = NoResponse}}

NoBurst == [start |-> -1, calls |-> 0, admits |-> 0]

\* The module is loaded: the store is empty, no request is in hand, and the
\* cleanup thread, started at lines 80-81, has made its first call of
\* time.sleep(300); the clock counts the seconds from that call.
Init ==
    /\ now = 0
    /\ rate_limit_store = [k \in {} |-> <<>>]
    /\ rate_limit_lock = "free"
    /\ pc = [t \in Workers |-> "idle"]
    /\ request = [t \in Workers |-> NoRequest]
    /\ current_time = [t \in Workers |-> -1]
    /\ admitted = [t \in Workers |-> "none"]
    /\ posted = [t \in Workers |-> NoPayload]
    /\ outcome = [t \in Workers |-> NoOutcome]
    /\ response = [t \in Workers |-> NoResponse]
    /\ sweeper = "sleep"
    /\ wake_at = SWEEP_INTERVAL
    /\ burst = [i \in Identifiers |-> NoBurst]
    /\ last_denied = [i \in Identifiers |-> -1]
    /\ quiet = FALSE
    /\ found = [t \in Workers |-> <<>>]
    /\ unswept = [k \in {} |-> <<>>]

\* ------------------------------------------------------------------------
\* The clock
\* ------------------------------------------------------------------------
Tick(readings) ==
    /\ \E t \in readings : t > now /\ now' = t
    /\ UNCHANGED <<rate_limit_store, rate_limit_lock, pc, locals, sweeper,
                   wake_at, history, shadow>>

\* ------------------------------------------------------------------------
\* rate_limit_lock (line 20; `with rate_limit_lock:` at lines 42 and 64)
\* ------------------------------------------------------------------------
\* A lock that excludes no one.
CanAcquire_NoExclusion(lock) == TRUE

\* acquire() goes through only when no thread holds the lock.
CanAcquire(lock) == lock = "free"

\* chat() resolving the client and cleaning its entries before it validates
\* the fields: a request with a session_id that fails a later gate has
\* touched the store when it is answered.
chat_receive_ThrottleFirst(w, r) ==
    /\ pc[w] = "idle"
    /\ request' = [request EXCEPT ![w] = r]
    /\ IF Gates(r) # NoResponse
       THEN /\ response' = [response EXCEPT ![w] = Gates(r)]
            /\ pc' = [pc EXCEPT ![w] = "done"]
            /\ rate_limit_store' =
                   IF r.json = "object" /\ Truthy(r.session_id)
                   THEN CleanOldEntries(rate_limit_store,
                                        get_client_identifier(r), now)
                   ELSE rate_limit_store
       ELSE /\ response' = response
            /\ pc' = [pc EXCEPT ![w] = "acquire"]
            /\ rate_limit_store' = rate_limit_store
    /\ UNCHANGED <<now, rate_limit_lock, current_time, admitted, posted,
                   outcome, sweeper, wake_at, history, shadow>>

\* ------------------------------------------------------------------------
\* chat(), lines 94-131: parse, validate, resolve the client identifier.
\* A request that fails a gate is answered at once; one that passes
\* arrives at `with rate_limit_lock:` in check_rate_limit.
\* ------------------------------------------------------------------------
chat_receive(w, r) ==
    /\ pc[w] = "idle"
    /\ request' = [request EXCEPT ![w] = r]
    /\ IF Gates(r) # NoResponse
       THEN /\ response' = [response EXCEPT ![w] = Gates(r)]
            /\ pc' = [pc EXCEPT ![w] = "done"]
       ELSE /\ response' = response
            /\ pc' = [pc EXCEPT ![w] = "acquire"]
    /\ UNCHANGED <<now, rate_limit_store, rate_limit_lock, current_time,
                   admitted, posted, outcome, sweeper, wake_at, history,
                   shadow>>

client_id(w) == get_client_identifier(request[w])

\* A lock per identifier: a thread is kept out only by a thread that works
\* on the same identifier, or by the sweep.
check_rate_limit_enter_PerIdentityLock(w) ==
    /\ pc[w] = "acquire"
    /\ \/ CanAcquire(rate_limit_lock)
       \/ /\ rate_limit_lock \in Workers
          /\ client_id(rate_limit_lock) # client_id(w)
    /\ rate_limit_lock' = w
    /\ pc' = [pc EXCEPT ![w] = "clean"]
    /\ found' = [found EXCEPT ![w] = Lookup(rate_limit_store, client_id(w))]
    /\ UNCHANGED <<now, rate_limit_store, locals, sweeper, wake_at, history,
                   unswept>>

\* check_rate_limit, line 42: take the lock.
check_rate_limit_enter(w) ==
    /\ pc[w] = "acquire"
    /\ CanAcquire(rate_limit_lock)
    /\ rate_limit_lock' = w
    /\ pc' = [pc EXCEPT ![w] = "clean"]
    /\ found' = [found EXCEPT ![w] = Lookup(rate_limit_store, client_id(w))]
    /\ UNCHANGED <<now, rate_limit_store, locals, sweeper, wake_at, history,
                   unswept>>

\* check_rate_limit, lines 43-50: read the clock, drop the old entries.
check_rate_limit_clean(w) ==
    /\ pc[w] = "clean"
    /\ current_time' = [current_time EXCEPT ![w] = now]
    /\ rate_limit_store' = CleanOldEntries(rate_limit_store, client_id(w), now)
    /\ unswept' = CleanOldEntries(unswept, client_id(w), now)
    /\ pc' = [pc EXCEPT ![w] = "check"]
    /\ UNCHANGED <<now, rate_limit_lock, request, admitted, posted, outcome,
                   response, sweeper, wake_at, history, found>>

\* History: the calls of one identifier that fall in one window.  A window
\* opens with a call that finds no live timestamp and takes in the calls
\* made less than RATE_LIMIT_WINDOW after it; calls counts to one past the
\* limit and stays there.
BurstAfter(b, current, fresh, admit) ==
    LET one == IF admit THEN 1 ELSE 0
    IN  IF b.start >= 0 /\ current < b.start + RATE_LIMIT_WINDOW
        THEN [start |-> b.start,
              calls |-> IF b.calls > RATE_LIMIT_REQUESTS THEN b.calls
                        ELSE b.calls + 1,
              admits |-> b.admits + one]
        ELSE IF fresh
        THEN [start |-> current, calls |-> 1, admits |-> one]
        ELSE NoBurst

\* A denial that records the attempt like an admission.
check_rate_limit_check_RecordsDenied(w) ==
    LET id == client_id(w)
        stored == Lookup(rate_limit_store, id)
        deny == LimitExceeded(rate_limit_store, id)
    IN  /\ pc[w] = "check"
        /\ rate_limit_store' =
               IF deny THEN AddCurrentRequest(rate_limit_store, id, current_time[w])
               ELSE Assign(rate_limit_store, id, stored)
        /\ unswept' = Assign(unswept, id, Lookup(unswept, id))
        /\ found' = IF deny THEN [found EXCEPT ![w] = <<>>] ELSE found
        /\ burst' = [burst EXCEPT ![id] =
                        BurstAfter(@, current_time[w], stored = <<>>, ~deny)]
        /\ last_denied' = [last_denied EXCEPT ![id] =
                              IF deny THEN current_time[w] ELSE -1]
        /\ IF deny
           THEN /\ rate_limit_lock' = "free"
                /\ admitted' = [admitted EXCEPT ![w] = "False"]
                /\ pc' = [pc EXCEPT ![w] = "limited"]
           ELSE /\ pc' = [pc EXCEPT ![w] = "add"]
                /\ UNCHANGED <<rate_limit_lock, admitted>>
        /\ UNCHANGED <<now, request, current_time, posted, outcome, response,
                       sweeper, wake_at, quiet>>

\* check_rate_limit, lines 53-54: over the limit, return False (leaving
\* the `with` block releases the lock).  Under the limit, go on to line 57.
check_rate_limit_check(w) ==
    LET id == client_id(w)
        stored == Lookup(rate_limit_store, id)
        deny == LimitExceeded(rate_limit_store, id)
    IN  /\ pc[w] = "check"
        /\ rate_limit_store' = Assign(rate_limit_store, id, stored)
        /\ unswept' = Assign(unswept, id, Lookup(unswept, id))
        /\ found' = IF deny THEN [found EXCEPT ![w] = <<>>] ELSE found
        /\ burst' = [burst EXCEPT ![id] =
                        BurstAfter(@, current_time[w], stored = <<>>, ~deny)]
        /\ last_denied' = [last_denied EXCEPT ![id] =
                              IF deny THEN current_time[w] ELSE -1]
        /\ IF deny
           THEN /\ rate_limit_lock' = "free"
                /\ admitted' = [admitted EXCEPT ![w] = "False"]
                /\ pc' = [pc EXCEPT ![w] = "limited"]
           ELSE /\ pc' = [pc EXCEPT ![w] = "add"]
                /\ UNCHANGED <<rate_limit_lock, admitted>>
        /\ UNCHANGED <<now, request, current_time, posted, outcome, response,
                       sweeper, wake_at, quiet>>

\* check_rate_limit, lines 57-58: record the request, return True.
check_rate_limit_add(w) ==
    /\ pc[w] = "add"
    /\ rate_limit_store' =
           AddCurrentRequest(rate_limit_store, client_id(w), current_time[w])
    /\ rate_limit_lock' = "free"
    /\ admitted' = [admitted EXCEPT ![w] = "True"]
    /\ pc' = [pc EXCEPT ![w] = "post"]
    /\ quiet' = FALSE
    /\ unswept' = AddCurrentRequest(unswept, client_id(w), current_time[w])
    /\ found' = [found EXCEPT ![w] = <<>>]
    /\ UNCHANGED <<now, request, current_time, posted, outcome, response,
                   sweeper, wake_at, burst, last_denied>>

\* chat(), lines 132-136: check_rate_limit returned False, answer 429.
chat_rate_limited(w) ==
    /\ pc[w] = "limited"
    /\ response' = [response EXCEPT ![w] = RateLimitedResponse]
    /\ pc' = [pc EXCEPT ![w] = "done"]
    /\ UNCHANGED <<now, rate_limit_store, rate_limit_lock, request,
                   current_time, admitted, posted, outcome, sweeper, wake_at,
                   history, shadow>>

\* chat(), lines 139-151: build llm_payload and give it to requests.post,
\* which blocks until the upstream call ends.
chat_call(w) ==
    /\ pc[w] = "post"
    /\ posted' = [posted EXCEPT ![w] = llm_payload(request[w])]
    /\ pc' = [pc EXCEPT ![w] = "wait"]
    /\ UNCHANGED <<now, rate_limit_store, rate_limit_lock, request,
                   current_time, admitted, outcome, response, sweeper,
                   wake_at, history, shadow>>

\* A handler that gives the client its slot back when the upstream call
\* fails: the newest timestamp of the identifier is taken out again.
chat_forward_RollsBack(w, o) ==
    LET id == client_id(w)
        stored == Lookup(rate_limit_store, id)
    IN  /\ pc[w] = "wait"
        /\ outcome' = [outcome EXCEPT ![w] = o]
        /\ response' = [response EXCEPT ![w] = Translate(request[w], o)]
        /\ pc' = [pc EXCEPT ![w] = "done"]
        /\ rate_limit_store' =
               IF Translate(request[w], o).status # 200 /\ stored # <<>>
               THEN Assign(rate_limit_store, id,
                           SubSeq(stored, 1, Len(stored) - 1))
               ELSE rate_limit_store
        /\ UNCHANGED <<now, rate_limit_lock, request, current_time, admitted,
                       posted, sweeper, wake_at, history, shadow>>

\* chat(), lines 147-183: requests.post ends, in a response or in an
\* exception, and chat() translates how it ended.
chat_forward(w, o) ==
    /\ pc[w] = "wait"
    /\ outcome' = [outcome EXCEPT ![w] = o]
    /\ response' = [response EXCEPT ![w] = Translate(request[w], o)]
    /\ pc' = [pc EXCEPT ![w] = "done"]
    /\ UNCHANGED <<now, rate_limit_store, rate_limit_lock, request,
                   current_time, admitted, posted, sweeper, wake_at, history,
                   shadow>>

\* The response is sent; the thread is free for the next request.
chat_return(w) ==
    /\ pc[w] = "done"
    /\ pc' = [pc EXCEPT ![w] = "idle"]
    /\ request' = [request EXCEPT ![w] = NoRequest]
    /\ current_time' = [current_time EXCEPT ![w] = -1]
    /\ admitted' = [admitted EXCEPT ![w] = "none"]
    /\ posted' = [posted EXCEPT ![w] = NoPayload]
    /\ outcome' = [outcome EXCEPT ![w] = NoOutcome]
    /\ response' = [response EXCEPT ![w] = NoResponse]
    /\ UNCHANGED <<now, rate_limit_store, rate_limit_lock, sweeper, wake_at,
                   history, shadow>>

\* ------------------------------------------------------------------------
\* cleanup_rate_limit_store(), lines 62-77
\* ------------------------------------------------------------------------
\* time.sleep(300) is over and the lock is taken (lines 63-64).
cleanup_enter ==
    /\ sweeper = "sleep"
    /\ now >= wake_at
    /\ CanAcquire(rate_limit_lock)
    /\ rate_limit_lock' = "sweeper"
    /\ sweeper' = "pass"
    /\ UNCHANGED <<now, rate_limit_store, pc, locals, wake_at, history,
                   shadow>>

\* A cleanup thread that returns after its first pass.
cleanup_pass_RunsOnce ==
    /\ sweeper = "pass"
    /\ rate_limit_store' = SweepPass(rate_limit_store, now)
    /\ rate_limit_lock' = "free"
    /\ sweeper' = "stopped"
    /\ quiet' = TRUE
    /\ UNCHANGED <<now, pc, locals, wake_at, burst, last_denied, shadow>>

\* Lines 65-77: the pass; leaving the `with` block releases the lock.
cleanup_pass ==
    /\ sweeper = "pass"
    /\ rate_limit_store' = SweepPass(rate_limit_store, now)
    /\ rate_limit_lock' = "free"
    /\ sweeper' = "loop"
    /\ quiet' = TRUE
    /\ UNCHANGED <<now, pc, locals, wake_at, burst, last_denied, shadow>>

\* Back at line 63: time.sleep(300) is called, and counts from the moment
\* of the call.
cleanup_sleep ==
    /\ sweeper = "loop"
    /\ sweeper' = "sleep"
    /\ wake_at' = now + SWEEP_INTERVAL
    /\ UNCHANGED <<now, rate_limit_store, rate_limit_lock, pc, locals,
                   history, shadow>>

\* ------------------------------------------------------------------------
\* Specifications
\* ------------------------------------------------------------------------
Limiter(w) ==
    \/ check_rate_limit_enter(w)
    \/ check_rate_limit_clean(w)
    \/ check_rate_limit_check(w)
    \/ check_rate_limit_add(w)

\* The threads handle requests drawn from requests, whose upstream calls
\* end in one of outcomes, while the clock moves through readings and the
\* sweep runs.  The answer to a denial (lines 132-136) and the return of
\* the thread are steps of the specifications whose threads handle
\* request after request: with fewer than RATE_LIMIT_REQUESTS threads, no
\* thread's first request is denied.
Serve(requests, outcomes, readings) ==
    \/ Tick(readings)
    \/ \E w \in Workers : \E r \in requests : chat_receive(w, r)
    \/ \E w \in Workers : Limiter(w)
    \/ \E w \in Workers : chat_call(w)
    \/ \E w \in Workers : \E o \in outcomes : chat_forward(w, o)
    \/ cleanup_enter
    \/ cleanup_pass
    \/ cleanup_sleep

\* The service under load from one client, some of whose requests are
\* invalid, on every thread and for as long as the clock runs.
LoadRequests == {ReqA, Plain(S1, None, GoodEmail)}

LoadOutcomes ==
    { HttpOutcome(200, "object", TRUE, Hello, "{response: hello}"),
      HttpOutcome(404, "notjson", FALSE, None, "not found"),
      Raised("Timeout") }

Next ==
    \/ Serve(LoadRequests, LoadOutcomes, ClockReadings)
    \/ \E w \in Workers : chat_rate_limited(w)
    \/ \E w \in Workers : chat_return(w)

Spec == Init /\ [][Next]_vars

\* Every kind of request and every upstream outcome, for the first request
\* of each thread.
NextFirst == Serve(Requests, Outcomes, ClockReadings)

SpecFirst == Init /\ [][NextFirst]_vars

\* The first requests of clients that differ in address or in session.
NextQuota == Serve(QuotaRequests, {Raised("Timeout")}, ClockReadings)

SpecQuota == Init /\ [][NextQuota]_vars

\* The loaded service under fair scheduling: every thread that can go on
\* does go on in the end.  Time goes on, a thread inside check_rate_limit
\* or past it takes its next step, an upstream call ends (in a response, in
\* the 30 s timeout or in a failure), a sweep pass that holds the lock
\* finishes and the cleanup thread calls time.sleep again.  Of
\* rate_limit_lock (a threading.Lock, line 20) nothing more is taken than
\* that a thread waiting for it gets it if it stays free: which of several
\* waiting threads goes on when the lock is released is not defined.
FairRequests ==
    {ReqA, Plain(S1, None, GoodEmail),
     Request("array", None, None, None, Addr1, FALSE, <<>>)}

FairOutcomes ==
    { HttpOutcome(200, "object", TRUE, Hello, "{response: hello}"),
      HttpOutcome(404, "notjson", FALSE, None, "not found"),
      Raised("Timeout"),
      Raised("ConnectionError") }

\* The clock reading at which the sweep first wakes.
FairReadings == {SWEEP_INTERVAL}

NextFair ==
    \/ Serve(FairRequests, FairOutcomes, FairReadings)
    \/ \E w \in Workers : chat_rate_limited(w)
    \/ \E w \in Workers : chat_return(w)

Fairness ==
    /\ WF_vars(Tick(FairReadings))
    /\ WF_vars(cleanup_enter)
    /\ \A w \in Workers : WF_vars(check_rate_limit_enter(w))
    /\ \A w \in Workers :
          WF_vars(\/ check_rate_limit_clean(w)
                  \/ check_rate_limit_check(w)
                  \/ check_rate_limit_add(w))
    /\ \A w \in Workers : WF_vars(chat_rate_limited(w))
    /\ \A w \in Workers : WF_vars(chat_call(w))
    /\ \A w \in Workers : WF_vars(\E o \in FairOutcomes : chat_forward(w, o))
    /\ WF_vars(cleanup_pass)
    /\ WF_vars(cleanup_sleep)

FairSpec == Init /\ [][NextFair]_vars /\ Fairness

\* ------------------------------------------------------------------------
\* Properties
\* ------------------------------------------------------------------------
Min2(a, b) == IF a <= b THEN a ELSE b

\* C1: of the calls of check_rate_limit for one identifier that fall in one
\* window (a window opening with a call that finds no live timestamp),
\* exactly the first RATE_LIMIT_REQUESTS are admitted, in the order in
\* which they take the lock, and the call after them is denied; at no time
\* does an identifier hold more than RATE_LIMIT_REQUESTS timestamps, however
\* the request threads and the sweep interleave.
C1_FirstTenAdmitted ==
    /\ \A i \in Identifiers :
          burst[i].start >= 0 =>
             burst[i].admits = Min2(burst[i].calls, RATE_LIMIT_REQUESTS)
    /\ \A i \in DOMAIN rate_limit_store :
          Len(rate_limit_store[i]) <= RATE_LIMIT_REQUESTS

\* Eleven calls were made in one window: ten admitted, the eleventh denied
\* while another thread waits for the lock.
C1_Witness ==
    \E i \in Identifiers : \E w \in Workers :
        /\ burst[i].calls = RATE_LIMIT_REQUESTS + 1
        /\ burst[i].admits = RATE_LIMIT_REQUESTS
        /\ admitted[w] = "False"
        /\ client_id(w) = i
        /\ \E v \in Workers : pc[v] = "acquire"

\* C2: a call of check_rate_limit for an identifier that was denied at time
\* t, made at a time >= t + RATE_LIMIT_WINDOW with nothing admitted for the
\* identifier in between (denied attempts and sweeps may have happened), is
\* admitted: at line 53 it goes on to line 57.
C2_AdmittedAfterWindow ==
    [][\A w \in Workers :
          ( /\ pc[w] = "check"
            /\ pc'[w] # "check"
            /\ last_denied[client_id(w)] >= 0
            /\ current_time[w] >= last_denied[client_id(w)] + RATE_LIMIT_WINDOW )
          => pc'[w] = "add"]_vars

\* A thread is at line 53 exactly one window after the identifier's latest
\* denial.
C2_Witness ==
    \E w \in Workers :
        /\ pc[w] = "check"
        /\ last_denied[client_id(w)] >= 0
        /\ current_time[w] = last_denied[client_id(w)] + RATE_LIMIT_WINDOW

\* C3: whenever check_rate_limit returns False, chat() answers 429 with an
\* error and retry_after = RATE_LIMIT_WINDOW = 60 and makes no upstream
\* call; so does the eleventh of eleven valid requests of one client in one
\* window, whatever the upstream outcomes of the first ten.
C3_RateLimited429 ==
    \A w \in Workers :
        admitted[w] = "False" =>
            /\ pc[w] \in {"limited", "done"}
            /\ posted[w] = NoPayload /\ outcome[w] = NoOutcome
            /\ pc[w] = "limited" => response[w] = NoResponse
            /\ pc[w] = "done" =>
                  /\ response[w].status = 429
                  /\ response[w].keys = {"error", "retry_after"}
                  /\ response[w].error # ""
                  /\ response[w].retry_after = RATE_LIMIT_WINDOW
                  /\ response[w].retry_after = 60

\* The eleventh call of a window was just denied, the tenth having ended in
\* an upstream error.
C3_Witness ==
    \E w \in Workers : \E v \in Workers :
        /\ admitted[w] = "False"
        /\ pc[w] = "done"
        /\ burst[client_id(w)].calls = RATE_LIMIT_REQUESTS + 1
        /\ burst[client_id(w)].admits = RATE_LIMIT_REQUESTS
        /\ response[v].status \in {502, 504}

\* The request passes the gates of lines 98-128.
PassesGates(r) ==
    /\ r.json = "object"
    /\ Truthy(r.session_id)
    /\ IsStr(r.query) /\ Strip(r.query.v) # <<>>
    /\ IsStr(r.email) /\ EMAIL_REGEX_match(r.email.v)

\* C4: a thread is at, or past, requests.post only with a request that
\* passed every validation gate and for which check_rate_limit returned
\* True; a request answered 400 or 429 has made no upstream call.
C4_UpstreamOnlyAfterGates ==
    \A w \in Workers :
        /\ (pc[w] \in {"post", "wait"} \/ posted[w] # NoPayload
                                       \/ outcome[w] # NoOutcome)
              => (PassesGates(request[w]) /\ admitted[w] = "True")
        /\ response[w].status \in {400, 429}
              => (posted[w] = NoPayload /\ outcome[w] = NoOutcome)

\* One thread has made its upstream call and the other answered 429.
C4_Witness ==
    \E w \in Workers : \E v \in Workers :
        /\ posted[w] # NoPayload
        /\ response[v].status = 429

\* C5: a request that chat() answers at a parsing or validation gate (400,
\* or the 500 of the outer handler) leaves rate_limit_store and
\* rate_limit_lock as they were.
C5_RejectedLeavesStore ==
    [][\A w \in Workers :
          (pc[w] = "idle" /\ pc'[w] = "done")
          => /\ rate_limit_store' = rate_limit_store
             /\ rate_limit_lock' = rate_limit_lock]_vars

\* A request with a session_id was answered 400 while the store holds a
\* timestamp of another request.
C5_Witness ==
    \E w \in Workers :
        /\ pc[w] = "done"
        /\ response[w].status = 400
        /\ Truthy(request[w].session_id)
        /\ DOMAIN rate_limit_store # {}

\* C6: for an admitted request, every upstream outcome is translated as: a
\* 2xx response with a JSON body (an object, with or without a response
\* field) gives 200 {session_id, response, timestamp} with response
\* defaulting to ""; a non-2xx response gives 502 with the
\* upstream body as details; a timeout 504; a connection failure 503; any
\* other failure of the call 500.
C6_OutcomeTranslation ==
    \A w \in Workers :
        (pc[w] = "done" /\ outcome[w] # NoOutcome) =>
            LET o == outcome[w]
                a == response[w]
                success == /\ o.kind = "response"
                           /\ o.status_code \in 200..299
                           /\ o.body = "object"
            IN  /\ success =>
                      /\ a.status = 200
                      /\ a.keys = {"session_id", "response", "timestamp"}
                      /\ a.session_id = request[w].session_id
                      /\ a.response = IF o.has_response THEN o.response
                                      ELSE Str(<<>>)
                /\ (o.kind = "response" /\ o.status_code \notin 200..299) =>
                      (a.status = 502 /\ a.details = o.text)
                /\ o.kind = "Timeout" => a.status = 504
                /\ o.kind = "ConnectionError" => a.status = 503
                /\ (o.kind = "Exception" \/ (o.kind = "response" /\ ~success
                                             /\ o.status_code \in 200..299))
                      => a.status = 500

\* C7: a request whose body is not parseable, or parses to something that
\* is not a non-empty object, is answered 400 with a JSON error, never 500.
C7_BadPayloadIs400 ==
    \A w \in Workers :
        (pc[w] = "done" /\ request[w].json \in {"malformed", "falsy", "array"})
        => (response[w].status = 400 /\ "error" \in response[w].keys)

\* The email grammar of the specification: local-part@domain.tld, anchored
\* at both ends.
EmailGrammar(x) == IsStr(x) /\ MatchesWhole(x.v)

\* The first field of a parsed object that the specification rejects, "" if
\* none.
FirstBadField(r) ==
    IF ~Truthy(r.session_id) THEN "session_id"
    ELSE IF ~Truthy(r.query) \/ ~IsStr(r.query) \/ Strip(r.query.v) = <<>>
    THEN "query"
    ELSE IF ~Truthy(r.email) \/ ~EmailGrammar(r.email) THEN "email"
    ELSE ""

FieldErrors(field) ==
    CASE field = "session_id" -> {"session_id is required"}
      [] field = "query" ->
           {"query is required and must be a non-empty string"}
      [] field = "email" -> {"email is required", "Invalid email format"}
      [] OTHER -> {}

\* C8: for a body that parses to an object, chat() answers 400 exactly when
\* session_id is absent or empty, or query is absent, not a string or blank,
\* or email is absent or does not match the email grammar; the first such
\* field, in the order session_id, query, email, names the error; and a
\* request that passes (and no other) is forwarded, with the trimmed query
\* and with session_id and email unchanged.
C8_FieldValidation ==
    \A w \in Workers :
        request[w].json = "object" =>
            LET r == request[w]
                bad == FirstBadField(r)
            IN  /\ pc[w] = "done" => (response[w].status = 400 <=> bad # "")
                /\ (pc[w] = "done" /\ bad # "") =>
                      response[w].error \in FieldErrors(bad)
                /\ bad # "" => posted[w] = NoPayload
                /\ posted[w] # NoPayload =>
                      /\ posted[w].query = Str(Strip(r.query.v))
                      /\ posted[w].session_id = r.session_id
                      /\ posted[w].email = r.email

\* C9 as claimed: a sweep pass that follows another pass with nothing
\* admitted in between leaves rate_limit_store as the first pass left it.
C9_SecondPassChangesNothing ==
    [][(sweeper = "pass" /\ sweeper' = "loop" /\ quiet)
          => rate_limit_store' = rate_limit_store]_vars

\* C9, amended: for every reachable rate_limit_store and every clock
\* reading, two passes that read that same clock value leave the store as
\* one such pass does.  (The passes of the running loop are SWEEP_INTERVAL
\* apart: there the second one drops the timestamps that have since become
\* two windows old.)
C9_PassIdempotent ==
    \A t \in ClockReadings :
        t >= now =>
            SweepPass(SweepPass(rate_limit_store, t), t)
                = SweepPass(rate_limit_store, t)

\* The sweep holds the lock and its pass will drop some timestamps of an
\* identifier and keep others.
C9_Witness ==
    /\ sweeper = "pass"
    /\ \E i \in DOMAIN rate_limit_store :
          LET kept == NewerThan(rate_limit_store[i],
                                now - RATE_LIMIT_WINDOW * 2)
          IN  kept # <<>> /\ kept # rate_limit_store[i]

Statuses == {200, 400, 429, 500, 502, 503, 504}

\* A request is answered once, with a JSON body and one of the statuses of
\* the interface; until then the thread has no response.
AnswerStructured ==
    \A w \in Workers :
        IF pc[w] = "done"
        THEN /\ response[w].status \in Statuses
             /\ response[w].keys # {}
             /\ response[w].status # 200 => "error" \in response[w].keys
        ELSE response[w] = NoResponse

\* A failure that no gate handles (a body that is not JSON, or a JSON
\* array) ends in 500 "Internal server error".
UnhandledIs500 ==
    \A w \in Workers :
        (pc[w] = "done" /\ request[w].json \in {"malformed", "array"})
            => /\ response[w].status = 500
               /\ response[w].error = "Internal server error"

\* A request whose thread has taken rate_limit_lock is answered.
AnsweredOnceLocked ==
    \A w \in Workers :
        (pc[w] \notin {"idle", "acquire", "done"}) ~> (pc[w] = "done")

ReadmitAt(timestamps) ==
    IF Len(timestamps) < RATE_LIMIT_REQUESTS
    THEN 0
    ELSE timestamps[Len(timestamps) - RATE_LIMIT_REQUESTS + 1] + RATE_LIMIT_WINDOW

\* C11: when check_rate_limit returns False, the identifier's list is the
\* list the call found with the entries <= current_time - RATE_LIMIT_WINDOW
\* removed and nothing added, so the time from which the identifier is
\* admitted again is what it was before the denied call.
C11_DenialNotRecorded ==
    [][\A w \in Workers :
          (pc[w] = "check" /\ pc'[w] = "limited") =>
             /\ admitted'[w] = "False"
             /\ Lookup(rate_limit_store', client_id(w))
                   = NewerThan(found[w], current_time[w] - RATE_LIMIT_WINDOW)
             /\ ReadmitAt(Lookup(rate_limit_store', client_id(w)))
                   = ReadmitAt(found[w])]_vars

\* Two calls for one identifier were denied at different times, and the
\* identifier still holds the timestamps of its admissions only.
C11_Witness ==
    \E w \in Workers : \E v \in Workers :
        /\ admitted[w] = "False" /\ admitted[v] = "False"
        /\ client_id(w) = client_id(v)
        /\ current_time[v] < current_time[w]
        /\ ReadmitAt(rate_limit_store[client_id(w)])
              = current_time[v] + RATE_LIMIT_WINDOW

\* C12: a timestamp that check_rate_limit recorded stays in its
\* identifier's list, in its place, for as long as it is inside the window
\* (> now - RATE_LIMIT_WINDOW): no step takes a live timestamp out, and the
\* step in which the upstream call ends, whatever its outcome (200, 502,
\* 503, 504 or 500), leaves rate_limit_store as it is.
C12_AdmissionStaysRecorded ==
    [][/\ \A i \in DOMAIN rate_limit_store :
             LET live == NewerThan(rate_limit_store[i], now - RATE_LIMIT_WINDOW)
                 after == NewerThan(Lookup(rate_limit_store', i),
                                    now - RATE_LIMIT_WINDOW)
             IN  /\ Len(after) >= Len(live)
                 /\ SubSeq(after, 1, Len(live)) = live
       /\ \A w \in Workers :
             (pc[w] \in {"post", "wait"} /\ pc'[w] # pc[w]) =>
                 /\ pc'[w] = "done" =>
                       response'[w].status \in {200, 500, 502, 503, 504}
                 /\ rate_limit_store' = rate_limit_store]_vars

\* A request whose upstream call failed still holds its place: the next
\* call of check_rate_limit for the identifier, inside the same window,
\* finds its timestamp and counts it.
C12_Witness ==
    \E w \in Workers : \E v \in Workers :
        /\ pc[v] = "done" /\ response[v].status \in {500, 502, 503, 504}
        /\ outcome[v] # NoOutcome
        /\ pc[w] = "check"
        /\ client_id(w) = client_id(v)
        /\ current_time[v] > current_time[w] - RATE_LIMIT_WINDOW
        /\ current_time[v] < current_time[w]
        /\ rate_limit_store[client_id(w)] = <<current_time[v]>>

\* C13: right after a sweep pass that ran at time now, every timestamp in
\* rate_limit_store is > now - 2*RATE_LIMIT_WINDOW, no identifier maps to
\* an empty list, no key is new, and of every list the pass found exactly
\* the timestamps > now - 2*RATE_LIMIT_WINDOW are left, in their order.
C13_SweepPassResult ==
    [][(sweeper = "pass" /\ sweeper' = "loop") =>
          /\ DOMAIN rate_limit_store' \subseteq DOMAIN rate_limit_store
          /\ \A i \in DOMAIN rate_limit_store' :
                /\ rate_limit_store'[i] # <<>>
                /\ \A k \in 1..Len(rate_limit_store'[i]) :
                      rate_limit_store'[i][k] > now - 2 * RATE_LIMIT_WINDOW
          /\ \A i \in DOMAIN rate_limit_store :
                Lookup(rate_limit_store', i)
                  = NewerThan(rate_limit_store[i],
                              now - 2 * RATE_LIMIT_WINDOW)]_vars

\* A sweep pass has run and an identifier that had been admitted is no
\* longer a key of the store.
C13_Witness ==
    /\ quiet
    /\ sweeper = "sleep"
    /\ \E i \in Identifiers :
          burst[i].admits > 0 /\ i \notin DOMAIN rate_limit_store

\* C14 as claimed: after the filter of check_rate_limit the identifier's
\* timestamps, and after a sweep pass the timestamps of every identifier,
\* are all > now - RATE_LIMIT_WINDOW.
C14_AllWithinWindow ==
    [][/\ \A w \in Workers :
             (pc[w] = "clean" /\ pc'[w] = "check") =>
                 \A k \in 1..Len(rate_limit_store'[client_id(w)]) :
                     rate_limit_store'[client_id(w)][k]
                        > now - RATE_LIMIT_WINDOW
       /\ (sweeper = "pass" /\ sweeper' = "loop") =>
             \A i \in DOMAIN rate_limit_store' :
                 \A k \in 1..Len(rate_limit_store'[i]) :
                     rate_limit_store'[i][k] > now - RATE_LIMIT_WINDOW]_vars

\* C14, amended: after the filter of check_rate_limit the identifier's
\* timestamps are all > current_time - RATE_LIMIT_WINDOW; after a sweep
\* pass the timestamps of every identifier are all
\* > now - 2*RATE_LIMIT_WINDOW (twice the window, not one window).
C14_WithinCutoffOfThePass ==
    [][/\ \A w \in Workers :
             (pc[w] = "clean" /\ pc'[w] = "check") =>
                 /\ current_time'[w] = now
                 /\ \A k \in 1..Len(rate_limit_store'[client_id(w)]) :
                       rate_limit_store'[client_id(w)][k]
                          > current_time'[w] - RATE_LIMIT_WINDOW
       /\ (sweeper = "pass" /\ sweeper' = "loop") =>
             \A i \in DOMAIN rate_limit_store' :
                 \A k \in 1..Len(rate_limit_store'[i]) :
                     rate_limit_store'[i][k] > now - 2 * RATE_LIMIT_WINDOW]_vars

\* A sweep pass has just left timestamps that are more than one window
\* old, and the filter of the next check_rate_limit has removed them.
C14_Witness ==
    /\ quiet
    /\ wake_at = now + SWEEP_INTERVAL
    /\ \E w \in Workers :
          /\ pc[w] = "check"
          /\ found[w] # <<>>
          /\ \A k \in 1..Len(found[w]) :
                /\ found[w][k] <= now - RATE_LIMIT_WINDOW
                /\ found[w][k] > now - 2 * RATE_LIMIT_WINDOW
          /\ rate_limit_store[client_id(w)] = <<>>

\* C15 as claimed: in every reachable state every list of
\* rate_limit_store is strictly increasing.
C15_StrictlyIncreasing ==
    \A i \in DOMAIN rate_limit_store :
        \A k \in 1..(Len(rate_limit_store[i]) - 1) :
            rate_limit_store[i][k] < rate_limit_store[i][k + 1]

\* C15, amended: in every reachable state every list of rate_limit_store
\* is non-decreasing (insertion order is chronological order); two
\* admissions of one identifier that read the same clock value leave equal
\* neighbours.
C15_NonDecreasing ==
    \A i \in DOMAIN rate_limit_store :
        \A k \in 1..(Len(rate_limit_store[i]) - 1) :
            rate_limit_store[i][k] <= rate_limit_store[i][k + 1]

\* A list holds two equal timestamps followed by a later one.
C15_Witness ==
    \E i \in DOMAIN rate_limit_store :
        \E k \in 1..(Len(rate_limit_store[i]) - 2) :
            /\ rate_limit_store[i][k] = rate_limit_store[i][k + 1]
            /\ rate_limit_store[i][k + 1] < rate_limit_store[i][k + 2]

\* The thread is inside `with rate_limit_lock:` of check_rate_limit.
InSection(w) == pc[w] \in {"clean", "check", "add"}

\* C16: in every reachable state at most one thread, the holder of
\* rate_limit_lock, is inside a critical section (a request thread inside
\* check_rate_limit, or the cleanup thread inside its pass), so a pass and
\* a read-filter-check-append never overlap, nor do two checks of one
\* identifier; and every step that changes rate_limit_store is taken
\* while the lock is held.
C16_MutualExclusion ==
    /\ [](/\ Cardinality({w \in Workers : InSection(w)})
               + (IF sweeper = "pass" THEN 1 ELSE 0) <= 1
          /\ \A w \in Workers : InSection(w) <=> rate_limit_lock = w
          /\ sweeper = "pass" <=> rate_limit_lock = "sweeper")
    /\ [][rate_limit_store' # rate_limit_store
             => rate_limit_lock # "free"]_vars

\* One thread is inside check_rate_limit while the other thread, for the
\* same identifier, and the cleanup thread, whose sleep is over, wait for
\* the lock.
C16_Witness ==
    \E w \in Workers : \E v \in Workers :
        /\ InSection(w)
        /\ pc[v] = "acquire"
        /\ client_id(v) = client_id(w)
        /\ sweeper = "sleep"
        /\ now >= wake_at

\* C17 as claimed: operations on different identifiers proceed in
\* parallel: a thread that arrives at the lock while only threads working
\* on other identifiers are inside check_rate_limit is not kept out (so
\* that both can be inside at the same time).
C17_ParallelAcrossIdentities ==
    \A v \in Workers :
        ( /\ pc[v] = "acquire"
          /\ sweeper # "pass"
          /\ \A w \in Workers \ {v} :
                InSection(w) => client_id(w) # client_id(v) )
        => CanAcquire(rate_limit_lock)

\* C17, amended: operations on different identifiers are serialized like
\* those on one identifier: in no reachable state are two threads that run
\* check_rate_limit for two different identifiers both inside the section,
\* and a thread that arrives while the lock is held, by whomever, stays
\* where it is until the lock is free.
C17_SerializedAcrossIdentities ==
    /\ [](\A w \in Workers : \A v \in Workers \ {w} :
             client_id(w) # client_id(v) => ~(InSection(w) /\ InSection(v)))
    /\ [][\A v \in Workers :
             (pc[v] = "acquire" /\ rate_limit_lock # "free")
                => pc'[v] = "acquire"]_vars

\* A thread is inside check_rate_limit for one identifier while a thread
\* with a request of another identifier waits for the lock.
C17_Witness ==
    \E w \in Workers : \E v \in Workers :
        /\ InSection(w)
        /\ pc[v] = "acquire"
        /\ client_id(v) # client_id(w)
        /\ rate_limit_lock = w

\* All timestamps of the identifier are two windows old, or older.
Stale(i) ==
    /\ i \in DOMAIN rate_limit_store
    /\ \A k \in 1..Len(rate_limit_store[i]) :
          rate_limit_store[i][k] <= now - 2 * RATE_LIMIT_WINDOW

\* The identifier holds a timestamp that is two windows old by the time
\* the first sleep of the cleanup thread ends.
HoldsOld(i) ==
    /\ i \in DOMAIN rate_limit_store
    /\ \E k \in 1..Len(rate_limit_store[i]) :
          rate_limit_store[i][k] <= SWEEP_INTERVAL - 2 * RATE_LIMIT_WINDOW

\* C18: with time going on and the cleanup thread scheduled fairly, an
\* identifier that sends no more requests leaves rate_limit_store: once
\* all its timestamps are two windows old a sweep pass deletes its key
\* (unless a new admission of the identifier comes first), and every
\* timestamp is taken out of the store in the end; the cleanup loop never
\* ends, each pass releases the lock as it ends, and the next sleep begins
\* after it.
C18_IdleIdentityRemoved ==
    /\ \A i \in Identifiers : Stale(i) ~> ~Stale(i)
    /\ \A i \in Identifiers : HoldsOld(i) ~> ~HoldsOld(i)
    /\ [](sweeper \in {"sleep", "pass", "loop"})
    /\ (sweeper = "pass") ~> (sweeper = "sleep" /\ rate_limit_lock # "sweeper")
    /\ [][(sweeper = "pass" /\ sweeper' # "pass")
             => /\ rate_limit_lock' = "free"
                /\ sweeper' = "loop"
                /\ \A i \in Identifiers :
                      Stale(i) => i \notin DOMAIN rate_limit_store']_vars

\* A pass of the sweep has just ended and has deleted the key of an
\* identifier whose timestamps, still held by the store without sweep,
\* were all two windows old; the next sleep has not begun yet.
C18_Witness ==
    /\ sweeper = "loop"
    /\ rate_limit_lock # "sweeper"
    /\ \E i \in Identifiers :
          /\ i \notin DOMAIN rate_limit_store
          /\ i \in DOMAIN unswept
          /\ unswept[i] # <<>>
          /\ \A k \in 1..Len(unswept[i]) :
                unswept[i][k] <= now - 2 * RATE_LIMIT_WINDOW

\* C19: the sweep is not observable through check_rate_limit.  unswept is
\* the store of the same calls of check_rate_limit, at the same clock
\* readings, with no sweep pass at all; at every moment both stores hold
\* the same timestamps inside the window for every identifier, a call that
\* has filtered its list sees the same list in both, and its answer (deny
\* or admit) is the same in both.
C19_SweepUnobservable ==
    /\ \A i \in DOMAIN rate_limit_store \cup DOMAIN unswept :
          NewerThan(Lookup(rate_limit_store, i), now - RATE_LIMIT_WINDOW)
            = NewerThan(Lookup(unswept, i), now - RATE_LIMIT_WINDOW)
    /\ \A w \in Workers :
          pc[w] = "check" =>
             /\ Lookup(rate_limit_store, client_id(w))
                   = Lookup(unswept, client_id(w))
             /\ LimitExceeded(rate_limit_store, client_id(w))
                   <=> LimitExceeded(unswept, client_id(w))

\* A call of check_rate_limit is under way for an identifier whose key the
\* sweep has deleted, while without the sweep its old timestamps would
\* still be there.
C19_Witness ==
    \E w \in Workers :
        /\ pc[w] = "clean"
        /\ client_id(w) \notin DOMAIN rate_limit_store
        /\ Lookup(unswept, client_id(w)) # <<>>

\* A step of check_rate_limit for one identifier leaves the list of every
\* other identifier, and the set of the other keys, as they are.
QuotaFrame ==
    [][\A w \in Workers :
          (InSection(w) /\ pc'[w] # pc[w]) =>
             \A i \in (DOMAIN rate_limit_store \cup DOMAIN rate_limit_store')
                      \ {client_id(w)} :
                 /\ i \in DOMAIN rate_limit_store
                 /\ i \in DOMAIN rate_limit_store'
                 /\ rate_limit_store'[i] = rate_limit_store[i]]_vars

\* C20: a step of check_rate_limit for one identifier leaves the list of
\* every other identifier as it is; and two requests that differ in the
\* address (the first X-Forwarded-For entry, or the remote address) or in
\* session_id have different identifiers, so that they never share a
\* quota.
C20_IndependentQuotas ==
    /\ [](\A w \in Workers : \A v \in Workers :
             ( /\ pc[w] # "idle" /\ pc[v] # "idle"
               /\ PassesGates(request[w]) /\ PassesGates(request[v])
               /\ \/ client_address(request[w]) # client_address(request[v])
                  \/ request[w].session_id # request[v].session_id )
             => client_id(w) # client_id(v))
    /\ QuotaFrame

====
